---- MODULE Spec2Model ----
(***************************************************************************)
(* Model of tensorflow_federated/python/core/api/computations.py.          *)
(*                                                                         *)
(* tf_computation is a one-line entry point: it hands its variadic         *)
(* positional arguments to computation_wrapper_instances.tensorflow_wrapper *)
(* and returns what that constructor returns.  The constructor itself is   *)
(* not part of the file; it is modelled here from the call grammar the     *)
(* specification gives for it (section 4.1).                               *)
(*                                                                         *)
(* A behaviour of the model is a client session: a bounded sequence of     *)
(* calls of tf_computation and of applications of decorator-factories      *)
(* that earlier calls returned.  The session is recorded in `events`; the  *)
(* invocations of the external constructor are recorded in `delegateLog`.  *)
(***************************************************************************)
EXTENDS Integers, Sequences, FiniteSets, TLC

\* Largest number of positional arguments a modelled call passes.
MaxArity == 3

\* Largest number of client operations (calls and applications) in a session.
MaxEvents == 2

VARIABLES events, delegateLog

vars == <<events, delegateLog>>

----------------------------------------------------------------------------
\* Python values a caller can pass.

\* A Python function or defun (`def foo(x): return x > 10`).
Function(name) == [kind |-> "function", name |-> name, elems |-> <<>>]

\* A TFF type given by a single object (`tf.int32`).
TypeSpec(name) == [kind |-> "type", name |-> name, elems |-> <<>>]

\* A Python tuple; `(tf.int32, tf.int32)` is the type-spec of a pair.
PyTuple(elems) == [kind |-> "tuple", name |-> "tuple", elems |-> elems]

\* The absent parameter type.
None == [kind |-> "none", name |-> "None", elems |-> <<>>]

Functions == {Function("foo")}

TypeSpecs == {TypeSpec("tf.int32"), PyTuple(<<TypeSpec("tf.int32"), TypeSpec("tf.int32")>>)}

Values == Functions \cup TypeSpecs

IsCallable(v) == v.kind = "function"

IsTypeSpec(v) == v.kind \in {"type", "tuple"}

\* All positional-argument tuples of at most n values.
ArgTuples(n) == UNION {[1..k -> Values] : k \in 0..n}

----------------------------------------------------------------------------
\* What a call can produce.

Computation(fn, ptype) == [kind |-> "computation", fn |-> fn, ptype |-> ptype]

DecoratorFactory(ptype) == [kind |-> "decorator", fn |-> None, ptype |-> ptype]

InvalidUsage == [kind |-> "invalid_usage", fn |-> None, ptype |-> None]

\* The wrap performed by the collaborator once it has a function.
Wrap(fn, ptype) == Computation(fn, ptype)

\* The external constructor computation_wrapper_instances.tensorflow_wrapper:
\* pattern matching on the arity and kind of its arguments.
tensorflow_wrapper(a) ==
  CASE Len(a) = 0 -> DecoratorFactory(None)
    [] Len(a) = 1 /\ IsCallable(a[1]) -> Wrap(a[1], None)
    [] Len(a) = 1 /\ ~IsCallable(a[1]) -> DecoratorFactory(a[1])
    [] Len(a) = 2 /\ IsCallable(a[1]) /\ IsTypeSpec(a[2]) -> Wrap(a[1], a[2])
    [] OTHER -> InvalidUsage

\* Applying a decorator-factory to the value written under the decorator.
ApplyDecorator(dec, v) ==
  IF IsCallable(v) THEN Wrap(v, dec.ptype) ELSE InvalidUsage

----------------------------------------------------------------------------
\* The entry point.

\* Variants of the delegate call's argument list that a slip in the one-line
\* body would produce; each is used to show that a property depends on it.
DelegateArgs_Reversed(args) == [k \in 1..Len(args) |-> args[Len(args) + 1 - k]]

DelegateArgs_Dropped(args) == <<>>

DelegateArgs_NoSplat(args) == <<PyTuple(args)>>

DelegateArgs_Truncated(args) == SubSeq(args, 1, IF Len(args) < 2 THEN Len(args) ELSE 2)

DelegateArgs_FirstOnly(args) == SubSeq(args, 1, IF Len(args) < 1 THEN Len(args) ELSE 1)

DelegateArgs_Stale(args) == IF delegateLog = <<>> THEN args ELSE delegateLog[1].args

\* The argument list of the delegate call: the caller's tuple, unpacked.
DelegateArgs(args) == args

\* What a Python function without `return` hands back.
ReturnValue_Missing(r) == [kind |-> "none", fn |-> None, ptype |-> None]

\* `return <delegate call>`: the caller receives the delegate's result.
ReturnValue(r) == r

\* def tf_computation: return the delegate's result for the forwarded tuple.
tf_computation(args) == ReturnValue(tensorflow_wrapper(DelegateArgs(args)))

----------------------------------------------------------------------------
Init ==
  /\ events = <<>>
  /\ delegateLog = <<>>

\* The client calls tf_computation with the positional arguments args.
TfComputation(args) ==
  /\ Len(events) < MaxEvents
  /\ LET me == Len(events) + 1
         forwarded == DelegateArgs(args)
     IN /\ delegateLog' = Append(delegateLog,
                                 [call |-> me, args |-> forwarded,
                                  result |-> tensorflow_wrapper(forwarded)])
        /\ events' = Append(events,
                            [op |-> "call", args |-> args, target |-> 0,
                             result |-> tf_computation(args)])

\* The client applies the decorator-factory returned by call number d to v.
Decorate(d, v) ==
  /\ Len(events) < MaxEvents
  /\ events[d].op = "call"
  /\ events[d].result.kind = "decorator"
  /\ events' = Append(events,
                      [op |-> "apply", args |-> <<v>>, target |-> d,
                       result |-> ApplyDecorator(events[d].result, v)])
  /\ UNCHANGED delegateLog

Next ==
  \/ \E args \in ArgTuples(MaxArity) : TfComputation(args)
  \/ \E d \in DOMAIN events : \E v \in Values : Decorate(d, v)

Spec == Init /\ [][Next]_vars

----------------------------------------------------------------------------
\* Vocabulary of the properties.

CallEvents == {i \in DOMAIN events : events[i].op = "call"}

ApplyEvents == {i \in DOMAIN events : events[i].op = "apply"}

\* The delegate invocations made on behalf of event i.
DelegateEntries(i) == {j \in DOMAIN delegateLog : delegateLog[j].call = i}

\* The documented call grammar: a function, or a type spec, or both
\* (function first), or neither.
Supported(args) ==
  \/ Len(args) = 0
  \/ Len(args) = 1 /\ IsCallable(args[1])
  \/ Len(args) = 1 /\ IsTypeSpec(args[1])
  \/ Len(args) = 2 /\ IsCallable(args[1]) /\ IsTypeSpec(args[2])

----------------------------------------------------------------------------
\* C1: every call of tf_computation, whatever the arity and kinds of its
\* arguments, invokes the external constructor with exactly the caller's
\* tuple (same elements, same order) and returns the constructor's result
\* unchanged.
C1_ForwardsUnchanged ==
  \A i \in CallEvents :
    \E j \in DOMAIN delegateLog :
      /\ DelegateEntries(i) = {j}
      /\ delegateLog[j].args = events[i].args
      /\ events[i].result = delegateLog[j].result

\* A three-argument call of mixed kinds has been forwarded.
C1_Witness ==
  \E i \in CallEvents :
    /\ Len(events[i].args) = 3
    /\ IsCallable(events[i].args[1])
    /\ IsTypeSpec(events[i].args[2])
    /\ events[i].args[3] # events[i].args[1]
    /\ DelegateEntries(i) # {}

C3_FunctionAndTypeWraps ==
  \A i \in CallEvents :
    (Len(events[i].args) = 2 /\ IsCallable(events[i].args[1])
       /\ IsTypeSpec(events[i].args[2]))
      => /\ events[i].result.kind = "computation"
         /\ events[i].result.fn = events[i].args[1]

C3_Witness ==
  \E i \in CallEvents :
    /\ Len(events[i].args) = 2
    /\ IsCallable(events[i].args[1])
    /\ IsTypeSpec(events[i].args[2])
    /\ events[i].result.kind = "computation"

\* C4: a call with exactly one non-callable argument (a type-spec) returns a
\* decorator-factory, not a computation; applying that decorator-factory to a
\* function later wraps the function with the type-spec of the first call.
C4_TypeSpecGivesDecorator ==
  /\ \A i \in CallEvents :
       (Len(events[i].args) = 1 /\ ~IsCallable(events[i].args[1]))
         => events[i].result.kind = "decorator"
  /\ \A i \in ApplyEvents :
       LET d == events[i].target
           f == events[i].args[1]
       IN (Len(events[d].args) = 1 /\ IsCallable(f))
            => events[i].result = Computation(f, events[d].args[1])

\* A decorator-factory made from a type-spec has been applied to a function.
C4_Witness ==
  \E i \in ApplyEvents :
    /\ Len(events[events[i].target].args) = 1
    /\ IsTypeSpec(events[events[i].target].args[1])
    /\ IsCallable(events[i].args[1])
    /\ events[i].result.kind = "computation"

\* C5: a call with zero arguments returns a callable decorator-factory rather
\* than a computation; given a function later, that callable returns a
\* wrapped computation of the function (with no declared parameter type).
C5_NoArgsGivesDecorator ==
  /\ \A i \in CallEvents :
       Len(events[i].args) = 0 => events[i].result.kind = "decorator"
  /\ \A i \in ApplyEvents :
       LET d == events[i].target
           f == events[i].args[1]
       IN (Len(events[d].args) = 0 /\ IsCallable(f))
            => events[i].result = Computation(f, None)

\* The decorator-factory of a zero-argument call has been applied to a function.
C5_Witness ==
  \E i \in ApplyEvents :
    /\ Len(events[events[i].target].args) = 0
    /\ IsCallable(events[i].args[1])
    /\ events[i].result.kind = "computation"

C7_NoDelegationOnUnsupported ==
  \A i \in CallEvents :
    ~Supported(events[i].args) => DelegateEntries(i) = {}

\* C7 as amended: when tf_computation is called with an unsupported argument
\* combination, the entry point makes no check of its own: it invokes the
\* external wrapper constructor exactly once with those arguments unchanged,
\* and the outcome of the call is the constructor's outcome for them.
C7_UnsupportedIsDelegated ==
  \A i \in CallEvents :
    ~Supported(events[i].args)
      => /\ Cardinality(DelegateEntries(i)) = 1
         /\ \A j \in DelegateEntries(i) :
              /\ delegateLog[j].args = events[i].args
              /\ delegateLog[j].result = events[i].result

\* An unsupported call has happened and the constructor was invoked for it.
C7_Witness ==
  \E i \in CallEvents :
    /\ ~Supported(events[i].args)
    /\ events[i].result.kind = "invalid_usage"
    /\ \E j \in DelegateEntries(i) : ~Supported(delegateLog[j].args)

C9_DecoratorEqualsInline ==
  \A i \in ApplyEvents :
    LET d == events[i].target
        f == events[i].args[1]
    IN IsCallable(f)
         => /\ Len(events[d].args) = 0
                 => events[i].result = tf_computation(<<f>>)
            /\ Len(events[d].args) = 1
                 => events[i].result = tf_computation(<<f, events[d].args[1]>>)

\* A typed decorator-factory has been applied to a function, and the inline
\* form of the same pair is a computation.
C9_Witness ==
  \E i \in ApplyEvents :
    /\ Len(events[events[i].target].args) = 1
    /\ IsCallable(events[i].args[1])
    /\ events[i].result.kind = "computation"
    /\ tf_computation(<<events[i].args[1], events[events[i].target].args[1]>>).kind
         = "computation"

\* C10: tf_computation keeps no state between invocations: every call makes
\* exactly one delegate invocation, with that call's own arguments, and two
\* calls with the same arguments forward the same tuple and have the same
\* outcome whatever happened before them (a failed call, or a
\* decorator-factory that was never applied).
C10_Stateless ==
  /\ Len(delegateLog) = Cardinality(CallEvents)
  /\ \A i \in CallEvents :
       /\ Cardinality(DelegateEntries(i)) = 1
       /\ \A j \in DelegateEntries(i) : delegateLog[j].args = events[i].args
  /\ \A i \in CallEvents : \A k \in CallEvents :
       events[i].args = events[k].args
         => /\ events[i].result = events[k].result
            /\ \A j \in DelegateEntries(i) : \A l \in DelegateEntries(k) :
                 delegateLog[j].args = delegateLog[l].args

\* The same type-spec call made twice; the first decorator-factory was never
\* applied, and the second call behaves as the first did.
C10_Witness ==
  /\ Len(events) = 2
  /\ CallEvents = {1, 2}
  /\ events[1].args = events[2].args
  /\ Len(events[1].args) = 1
  /\ events[1].result.kind = "decorator"
  /\ events[2].result.kind = "decorator"
  /\ Len(delegateLog) = 2

====
